---- MODULE Spec2Model ----
(***************************************************************************)
(* Model of BugMasterBot (src/src/bug_master/bug_master_bot.py): the       *)
(* per-channel configuration store, refresh_file_configuration,            *)
(* get_channel_configuration, reset_configuration, add_reaction and        *)
(* get_all_messages.                                                       *)
(*                                                                         *)
(* Every coroutine is a task with a frame.  A step of the model is the     *)
(* code a task runs between two awaits: asyncio is cooperative, so that    *)
(* code is atomic.  The platform client and the configuration loader are   *)
(* the environment: their answers are chosen nondeterministically when the *)
(* awaiting task is resumed.  chat_postMessage is taken to succeed.        *)
(* Python None is the string None in string-typed slots and the object     *)
(* reference Null in object-typed slots.                                   *)
(***************************************************************************)
EXTENDS Integers, Sequences, FiniteSets, TLC

\* ---------------------------------------------------------------- bounds
MaxObjs == 2
MaxEventFiles == 2
MaxFiles == 3
MaxTimestamp == 2
MaxPages == 3

\* ------------------------------------------------------------- constants
MessagesCount == 20

None == "None"
Null == 0

Tasks == {1, 2}
Channels == {"C1", "C2"}
UserIds == {None, "", "U1"}
Emojis == {"bug", "bad::name"}
MessageTs == {"1.0", "2.0"}
Sinces == {0, 5}

\* consts.CONFIGURATION_FILE_NAME, as a sequence of characters
CONFIGURATION_FILE_NAME == <<"c", "f", "g">>

Titles ==
    { <<"c", "f", "g">>, <<"c", "f", "g", "x">>, <<"C", "f", "g">>,
      <<"c", "f">>, <<"x", "c", "f", "g">> }

FileRecords == [title : Titles, timestamp : 1..MaxTimestamp]

NoFile == [title |-> <<>>, timestamp |-> 0]

SeqsUpTo(S, n) == UNION { [1..k -> S] : k \in 0..n }

\* every list of files, for the candidate selection on its own
FileLists == SeqsUpTo(FileRecords, MaxFiles)

\* the files of upload events and of files_list answers
EventFiles ==
    { [title |-> <<"c", "f", "g">>, timestamp |-> 1],
      [title |-> <<"c", "f", "g", "x">>, timestamp |-> 2],
      [title |-> <<"C", "f", "g">>, timestamp |-> 2] }

EventFileLists == SeqsUpTo(EventFiles, MaxEventFiles)

\* --------------------------------------------------------- pure helpers
\* variant: the prefix test ignores case
StartsWithIgnoreCase(s, p) ==
    LET Lower(c) == IF c = "C" THEN "c" ELSE c
    IN  /\ Len(s) >= Len(p)
        /\ \A i \in 1..Len(p) : Lower(s[i]) = Lower(p[i])

\* str.startswith
StartsWith(s, p) == Len(s) >= Len(p) /\ SubSeq(s, 1, Len(p)) = p

\* bool(x) of an optional string: None and "" are falsy
Truthy(s) == s # None /\ s # ""

RECURSIVE InsertBeforeEqual(_, _)
InsertBeforeEqual(x, s) ==
    IF s = <<>> THEN <<x>>
    ELSE IF Head(s).timestamp > x.timestamp
         THEN <<Head(s)>> \o InsertBeforeEqual(x, Tail(s))
         ELSE <<x>> \o s

RECURSIVE SortedDescUnstable(_)
\* variant: a descending sort that reverses files of equal timestamp
SortedDescUnstable(files) ==
    IF files = <<>> THEN <<>>
    ELSE InsertBeforeEqual(files[Len(files)],
                           SortedDescUnstable(SubSeq(files, 1, Len(files) - 1)))

RECURSIVE InsertDesc(_, _)
\* one step of a stable descending sort: x goes after every element whose
\* key is greater than or equal to its own
InsertDesc(x, s) ==
    IF s = <<>> THEN <<x>>
    ELSE IF Head(s).timestamp >= x.timestamp
         THEN <<Head(s)>> \o InsertDesc(x, Tail(s))
         ELSE <<x>> \o s

RECURSIVE SortedDesc(_)
\* sorted(files, key=lambda f: f["timestamp"], reverse=True)
SortedDesc(files) ==
    IF files = <<>> THEN <<>>
    ELSE InsertDesc(files[Len(files)], SortedDesc(SubSeq(files, 1, Len(files) - 1)))

\* the list comprehension of refresh_file_configuration
SelectCandidates(files) ==
    SelectSeq(SortedDesc(files), LAMBDA f : StartsWith(f.title, CONFIGURATION_FILE_NAME))

\* ----------------------------------------------------------------- state
VARIABLES
    config,   \* self._config: channel id -> reference to a ChannelFileConfig
    heap,     \* the ChannelFileConfig objects, by reference; FreeSlot where none is
    frame,    \* per task: the running coroutine's locals and position, the calls
              \* it made (trace) and the store it was started on (config0, heap0)
    overlap   \* whether the callers start a coroutine while another is in flight

vars == <<config, heap, frame, overlap>>

LoadOutcomes == {"ok", "SchemaError", "ScannerError", "OtherError"}

EmptyConfig == [c \in {} |-> Null]

IdleFrame ==
    [ op |-> "none", pc |-> "idle", channel |-> None,
      files |-> <<>>, sorted_files |-> <<>>,
      from_history |-> FALSE, force_create |-> FALSE, user_id |-> None,
      bmc |-> Null, res |-> FALSE, e |-> None, ret |-> None, exc |-> None,
      emoji |-> None, ts |-> None, since |-> 0, cursor |-> None,
      messages |-> <<>>, pages |-> <<>>,
      config0 |-> EmptyConfig, heap0 |-> <<>>, trace |-> <<>> ]

\* calls a task makes on its collaborators and writes it makes to the store
Event(kind, to, text, obj, link, thread) ==
    [kind |-> kind, to |-> to, text |-> text, obj |-> obj, link |-> link, thread |-> thread]

WriteEvent(ch, obj) == Event("write", ch, "", obj, NoFile, None)
LoadEvent(obj) == Event("load", None, "", obj, NoFile, None)
FilesListEvent(ch) == Event("files_list", ch, "", Null, NoFile, None)
ReactionEvent(ch, emoji, ts) == Event("reactions_add", ch, emoji, Null, NoFile, ts)
HistoryEvent(ch, limit, cursor, oldest) ==
    [kind |-> "conversations_history", to |-> ch, limit |-> limit,
     cursor |-> cursor, oldest |-> oldest]

\* a world is what one step of a task reads and writes
World(t) == [f |-> frame[t], config |-> config, heap |-> heap]

Log(w, e) == [w EXCEPT !.f.trace = Append(@, e)]

At(w, pc) == [w EXCEPT !.f.pc = pc]

Return(w, value) == [w EXCEPT !.f.pc = "done", !.f.ret = value]

Raise(w, e) == [w EXCEPT !.f.pc = "raised", !.f.exc = e]

\* self._config[channel] = obj
SetConfig(w, ch, obj) ==
    Log([w EXCEPT !.config = [c \in DOMAIN w.config \cup {ch} |->
                                 IF c = ch THEN obj ELSE w.config[c]]],
        WriteEvent(ch, obj))

has_channel_configurations(cfg, ch) == ch \in DOMAIN cfg

get_configuration(cfg, ch) == IF ch \in DOMAIN cfg THEN cfg[ch] ELSE Null

\* variant: a reset empties the store
reset_configuration_clears_all(cfg, ch) ==
    IF ch \in DOMAIN cfg THEN EmptyConfig ELSE cfg

reset_configuration(cfg, ch) ==
    IF ch \in DOMAIN cfg THEN [c \in DOMAIN cfg \ {ch} |-> cfg[c]] ELSE cfg

\* the call of chat_postMessage inside add_comment
add_comment(w, to, text, obj, link, thread) ==
    Log(w, Event("post", to, text, obj, link, thread))

Refs == 1..MaxObjs

FreeSlot == [file |-> NoFile, last_load |-> "free"]

FreeRefs(hp) == {i \in Refs : hp[i] = FreeSlot}

\* ChannelFileConfig(file): a new object at a reference no live object has,
\* not loaded yet
ChannelFileConfig(w, file) ==
    LET i == CHOOSE i \in FreeRefs(w.heap) : \A j \in FreeRefs(w.heap) : i <= j
    IN  [w EXCEPT !.heap[i] = [file |-> file, last_load |-> "never"],
                  !.f.bmc = i]

\* the references held by the store and by the coroutines
Referenced(cfg, fr) ==
    {cfg[c] : c \in DOMAIN cfg}
    \cup {fr[t].bmc : t \in DOMAIN fr}
    \cup UNION {IF fr[t].op = "ensure" /\ fr[t].pc = "done" THEN {fr[t].ret} ELSE {}
                : t \in DOMAIN fr}

\* an object nothing refers to any more is reclaimed
Collect(hp, cfg, fr) ==
    [i \in Refs |-> IF i \in Referenced(cfg, fr) THEN hp[i] ELSE FreeSlot]

Permalink(hp, obj) == hp[obj].file

\* variant: force_create is not looked at
NeedsNewObject_unforced(cfg, ch, force_create) == ch \notin DOMAIN cfg

NeedsNewObject(cfg, ch, force_create) == force_create \/ ch \notin DOMAIN cfg

\* variant: the new object is built from the last file of the selection
_get_file_configuration_last(w, ch, files, force_create) ==
    IF NeedsNewObject(w.config, ch, force_create)
    THEN ChannelFileConfig(w, IF files # <<>> THEN files[Len(files)] ELSE NoFile)
    ELSE [w EXCEPT !.f.bmc = w.config[ch]]

_get_file_configuration(w, ch, files, force_create) ==
    IF NeedsNewObject(w.config, ch, force_create)
    THEN ChannelFileConfig(w, IF files # <<>> THEN files[1] ELSE NoFile)
    ELSE [w EXCEPT !.f.bmc = w.config[ch]]

\* ------------------------------------------- get_channel_configuration
\* variant: absent is returned without the message
ensure_after_history_silent(w) ==
    IF ~has_channel_configurations(w.config, w.f.channel)
    THEN Return(w, Null)
    ELSE Return(w, get_configuration(w.config, w.f.channel))

\* variant: the result of the history load decides, not the store
ensure_after_history_by_result(w) ==
    IF ~w.f.res
    THEN At(add_comment(w, w.f.channel, "missing", Null, NoFile, None), "post_missing")
    ELSE Return(w, get_configuration(w.config, w.f.channel))

\* lines 253-261: the second look at the store
ensure_after_history(w) ==
    IF ~has_channel_configurations(w.config, w.f.channel)
    THEN At(add_comment(w, w.f.channel, "missing", Null, NoFile, None), "post_missing")
    ELSE Return(w, get_configuration(w.config, w.f.channel))

\* variant: the history is asked whatever the store holds
ensure_begin_always_lists(w) ==
    At(Log(w, FilesListEvent(w.f.channel)), "files_list")

\* lines 249-252
ensure_begin(w) ==
    IF ~has_channel_configurations(w.config, w.f.channel)
    THEN At(Log(w, FilesListEvent(w.f.channel)), "files_list")
    ELSE ensure_after_history(w)

\* ------------------------------------------ refresh_file_configuration
\* a return statement of refresh_file_configuration: to the caller of the
\* task, or back into try_load_configurations_from_history (lines 204-206)
\* and from there into get_channel_configuration (line 253)
RefreshReturn(w, value) ==
    IF w.f.op = "refresh" THEN Return(w, value)
    ELSE ensure_after_history([w EXCEPT !.f.res = value])

\* lines 138-151, up to the await of bmc.load
refresh_begin(w, files, from_history, force_create, user_id) ==
    LET w1 == [w EXCEPT !.f.files = files,
                        !.f.sorted_files = SelectCandidates(files),
                        !.f.from_history = from_history,
                        !.f.force_create = force_create,
                        !.f.user_id = user_id,
                        !.f.res = FALSE]
    IN  IF w1.f.sorted_files = <<>> THEN RefreshReturn(w1, FALSE)
        ELSE LET w2 == _get_file_configuration(w1, w1.f.channel, w1.f.sorted_files,
                                               force_create)
                 w3 == SetConfig(w2, w2.f.channel, w2.f.bmc)
             IN  At(Log(w3, LoadEvent(w3.f.bmc)), "load")

\* variant: the object that failed validation is taken out of the store
on_validation_error_discards(w, e) ==
    LET w1 == [w EXCEPT !.f.e = e, !.config = reset_configuration(@, w.f.channel)]
    IN  At(add_comment(w1, w1.f.channel, "invalid", Null, NoFile, None), "post_invalid")

\* variant: the handler does not store the object again
on_validation_error_no_rewrite(w, e) ==
    At(add_comment([w EXCEPT !.f.e = e], w.f.channel, "invalid", Null, NoFile, None),
       "post_invalid")

\* variant: the channel is told before the store is written
on_validation_error_notifies_first(w, e) ==
    LET w1 == add_comment([w EXCEPT !.f.e = e], w.f.channel, "invalid", Null, NoFile, None)
    IN  At(SetConfig(w1, w1.f.channel, w1.f.bmc), "post_invalid")

\* lines 154-157: except (SchemaError, ScannerError)
on_validation_error(w, e) ==
    LET w1 == SetConfig([w EXCEPT !.f.e = e], w.f.channel, w.f.bmc)
    IN  At(add_comment(w1, w1.f.channel, "invalid", Null, NoFile, None), "post_invalid")

\* variant: the confirmation is posted for loads from history too
on_load_success_always_posts(w) ==
    IF w.f.channel \notin DOMAIN w.config THEN Raise(w, "KeyError")
    ELSE At(add_comment(w, w.f.channel, "updated", w.config[w.f.channel],
                        Permalink(w.heap, w.f.bmc), None),
            "post_updated")

\* lines 168-176: the confirmation; self._config[channel] is read for the text
on_load_success(w) ==
    IF ~w.f.from_history
    THEN IF w.f.channel \notin DOMAIN w.config THEN Raise(w, "KeyError")
         ELSE At(add_comment(w, w.f.channel, "updated", w.config[w.f.channel],
                             Permalink(w.heap, w.f.bmc), None),
                 "post_updated")
    ELSE RefreshReturn(w, w.f.res)

\* variant: every exception of the loader is handled as a validation error
refresh_after_load_catches_all(w, outcome) ==
    LET w1 == [w EXCEPT !.heap[w.f.bmc].last_load = outcome]
    IN  IF outcome = "ok" THEN on_load_success([w1 EXCEPT !.f.res = TRUE])
        ELSE on_validation_error(w1, outcome)

\* variant: the entry is taken back when the loader raises something else
refresh_after_load_rolls_back(w, outcome) ==
    LET w1 == [w EXCEPT !.heap[w.f.bmc].last_load = outcome]
    IN  CASE outcome = "ok" -> on_load_success([w1 EXCEPT !.f.res = TRUE])
          [] outcome \in {"SchemaError", "ScannerError"} -> on_validation_error(w1, outcome)
          [] OTHER -> Raise([w1 EXCEPT !.config = reset_configuration(@, w.f.channel)],
                            outcome)

\* variant: res is not set after the load
refresh_after_load_keeps_res(w, outcome) ==
    LET w1 == [w EXCEPT !.heap[w.f.bmc].last_load = outcome]
    IN  CASE outcome = "ok" -> on_load_success(w1)
          [] outcome \in {"SchemaError", "ScannerError"} -> on_validation_error(w1, outcome)
          [] OTHER -> Raise(w1, outcome)

\* lines 151-168: bmc.load returns or raises
refresh_after_load(w, outcome) ==
    LET w1 == [w EXCEPT !.heap[w.f.bmc].last_load = outcome]
    IN  CASE outcome = "ok" -> on_load_success([w1 EXCEPT !.f.res = TRUE])
          [] outcome \in {"SchemaError", "ScannerError"} -> on_validation_error(w1, outcome)
          [] OTHER -> Raise(w1, outcome)

\* variant: the requester is never written to
refresh_after_invalid_post_public_only(w) == RefreshReturn(w, FALSE)

\* lines 158-166: the private message and the return
refresh_after_invalid_post(w) ==
    IF Truthy(w.f.user_id)
    THEN At(add_comment(w, w.f.user_id,
                        IF w.f.e = "SchemaError" THEN "invalid_detail:SchemaError"
                                                 ELSE "invalid_detail:ScannerError",
                        Null, NoFile, None),
            "post_private")
    ELSE RefreshReturn(w, FALSE)

\* -------------------------------------------------------- add_reaction
\* what reactions_add does: returns, raises SlackApiError whose response
\* carries an error field, or raises something else
ReactionOutcomes ==
    {[exc |-> None, error |-> None], [exc |-> "TimeoutError", error |-> None]}
    \cup [exc : {"SlackApiError"},
          error : {None, "invalid_name", "already_reacted", "channel_not_found"}]

\* line 65, up to the await of reactions_add
add_reaction_begin(w, emoji, ts) ==
    LET w1 == [w EXCEPT !.f.emoji = emoji, !.f.ts = ts]
    IN  At(Log(w1, ReactionEvent(w1.f.channel, emoji, ts)), "reactions_add")

\* variant: every platform error but invalid_name is swallowed
on_slack_api_error_swallows(w, error) ==
    IF error = "invalid_name"
    THEN At(add_comment(w, w.f.channel, "invalid_reaction", Null, NoFile, w.f.ts),
            "post_reaction")
    ELSE Return(w, None)

\* lines 66-77: the handler of SlackApiError
on_slack_api_error(w, error) ==
    IF error = "invalid_name"
    THEN At(add_comment(w, w.f.channel, "invalid_reaction", Null, NoFile, w.f.ts),
            "post_reaction")
    ELSE IF error = "already_reacted" THEN Return(w, None)
    ELSE Raise(w, "SlackApiError")

\* lines 65-77: reactions_add returns or raises
add_reaction_after(w, outcome) ==
    LET w1 == [w EXCEPT !.f.e = outcome]
    IN  CASE outcome.exc = None -> Return(w1, "response")
          [] outcome.exc = "SlackApiError" -> on_slack_api_error(w1, outcome.error)
          [] OTHER -> Raise(w1, outcome.exc)

\* ---------------------------------------------------- get_all_messages
Chunks == {<<>>, <<"a">>, <<"b", "c">>}

\* res.data of conversations_history: the messages key may be missing, and
\* so may response_metadata or its next_cursor, which may also be null or ""
HistoryResponses ==
    [has_messages : {TRUE}, messages : Chunks, meta : {"present"},
     next_cursor : {None, "", "c1"}]
    \cup [has_messages : {TRUE}, messages : Chunks, meta : {"absent", "empty"},
          next_cursor : {None}]
    \cup [has_messages : {FALSE}, messages : {<<>>}, meta : {"absent", "empty", "present"},
          next_cursor : {None}]
    \cup [has_messages : {FALSE}, messages : {<<>>}, meta : {"present"},
          next_cursor : {"", "c1"}]

\* res.data.get("messages", [])
MessagesOf(resp) == IF resp.has_messages THEN resp.messages ELSE <<>>

\* res.data.get("response_metadata", {}).get("next_cursor")
NextCursorOf(resp) == IF resp.meta = "present" THEN resp.next_cursor ELSE None

\* get_messages, up to the await of conversations_history
get_messages(w, messages_count, cursor, oldest) ==
    At(Log(w, HistoryEvent(w.f.channel, messages_count, cursor, oldest)), "page")

\* lines 239-242: the first turn of the loop
get_all_messages_begin(w, since) ==
    get_messages([w EXCEPT !.f.since = since, !.f.messages = <<>>, !.f.cursor = None],
                 MessagesCount, None, since)

\* variant: the loop ends on any falsy cursor
LoopEndsOnFalsy(cursor) == cursor = None \/ cursor = ""

\* the test that ends the loop
LoopEnds(cursor) == cursor = None

\* variant: the next request does not carry the cursor
get_all_messages_after_restarts(w, resp) ==
    LET w1 == [w EXCEPT !.f.cursor = NextCursorOf(resp),
                        !.f.messages = @ \o MessagesOf(resp),
                        !.f.pages = Append(@, resp)]
    IN  IF LoopEnds(w1.f.cursor) THEN Return(w1, w1.f.messages)
        ELSE get_messages(w1, MessagesCount, None, w1.f.since)

\* lines 242-247: a page arrives
get_all_messages_after(w, resp) ==
    LET w1 == [w EXCEPT !.f.cursor = NextCursorOf(resp),
                        !.f.messages = @ \o MessagesOf(resp),
                        !.f.pages = Append(@, resp)]
    IN  IF LoopEnds(w1.f.cursor) THEN Return(w1, w1.f.messages)
        ELSE get_messages(w1, MessagesCount, w1.f.cursor, w1.f.since)

\* --------------------------------------------------------------- actions
FilesResponses ==
    {[present |-> FALSE, files |-> <<>>]} \cup [present : {TRUE}, files : EventFileLists]

\* res.data.get("files", [])
FilesOf(resp) == IF resp.present THEN resp.files ELSE <<>>

InitStore == config = EmptyConfig /\ heap = [i \in Refs |-> FreeSlot]

Init == InitStore /\ frame = [t \in Tasks |-> IdleFrame] /\ overlap = FALSE

\* a coroutine can be started: calls that do not overlap all run as task 1
CanStart(t) == frame[t].pc = "idle" /\ (overlap \/ t = 1)

Apply(t, w) ==
    /\ frame' = [frame EXCEPT ![t] = w.f]
    /\ config' = w.config
    /\ heap' = Collect(w.heap, w.config, [frame EXCEPT ![t] = w.f])
    /\ UNCHANGED overlap

Start(t, op, ch) ==
    [World(t) EXCEPT !.f = [IdleFrame EXCEPT !.op = op, !.channel = ch,
                                             !.config0 = config, !.heap0 = heap]]

\* a refresh that constructs an object needs a free reference
CanAllocate(ch, files, force_create) ==
    (SelectCandidates(files) # <<>> /\ NeedsNewObject(config, ch, force_create))
        => FreeRefs(heap) # {}

RefreshCall(t) ==
    /\ CanStart(t)
    /\ \E ch \in Channels, files \in EventFileLists, from_history \in BOOLEAN,
          force_create \in BOOLEAN, user_id \in UserIds :
          /\ CanAllocate(ch, files, force_create)
          /\ Apply(t, refresh_begin(Start(t, "refresh", ch), files, from_history,
                                    force_create, user_id))

\* the coroutine refresh_file_configuration(...) exists with its arguments
\* bound and is given its first turn
RefreshRun(t) ==
    /\ frame[t].pc = "scheduled" /\ frame[t].op = "refresh"
    /\ CanAllocate(frame[t].channel, frame[t].files, frame[t].force_create)
    /\ Apply(t, refresh_begin([World(t) EXCEPT !.f.config0 = config, !.f.heap0 = heap],
                              frame[t].files, frame[t].from_history,
                              frame[t].force_create, frame[t].user_id))

\* a pending call of reset_configuration(channel) is made
ResetRun(t) ==
    /\ frame[t].pc = "scheduled" /\ frame[t].op = "reset"
    /\ LET w == [World(t) EXCEPT !.f.config0 = config, !.f.heap0 = heap]
       IN  Apply(t, Return([w EXCEPT !.config = reset_configuration(w.config,
                                                                    w.f.channel)],
                           None))

LoadReturn(t) ==
    /\ frame[t].pc = "load"
    /\ \E outcome \in LoadOutcomes : Apply(t, refresh_after_load(World(t), outcome))

InvalidPosted(t) ==
    /\ frame[t].pc = "post_invalid"
    /\ Apply(t, refresh_after_invalid_post(World(t)))

PrivatePosted(t) ==
    /\ frame[t].pc = "post_private"
    /\ Apply(t, RefreshReturn(World(t), FALSE))

UpdatedPosted(t) ==
    /\ frame[t].pc = "post_updated"
    /\ Apply(t, RefreshReturn(World(t), frame[t].res))

EnsureCall(t) ==
    /\ CanStart(t)
    /\ \E ch \in Channels : Apply(t, ensure_begin(Start(t, "ensure", ch)))

FilesListReturn(t) ==
    /\ frame[t].pc = "files_list"
    /\ \E resp \in FilesResponses :
          /\ CanAllocate(frame[t].channel, FilesOf(resp), FALSE)
          /\ Apply(t, refresh_begin(World(t), FilesOf(resp), TRUE, FALSE, None))

MissingPosted(t) ==
    /\ frame[t].pc = "post_missing"
    /\ Apply(t, Return(World(t), Null))

ResetCall(t) ==
    /\ CanStart(t)
    /\ \E ch \in Channels :
          LET w == Start(t, "reset", ch)
          IN  Apply(t, Return([w EXCEPT !.config = reset_configuration(w.config, ch)], None))

AddReactionCall(t) ==
    /\ CanStart(t)
    /\ \E ch \in Channels, emoji \in Emojis, ts \in MessageTs :
          Apply(t, add_reaction_begin(Start(t, "add_reaction", ch), emoji, ts))

ReactionsAddReturn(t) ==
    /\ frame[t].pc = "reactions_add"
    /\ \E outcome \in ReactionOutcomes : Apply(t, add_reaction_after(World(t), outcome))

ReactionCommentPosted(t) ==
    /\ frame[t].pc = "post_reaction"
    /\ Apply(t, Return(World(t), "response"))

GetAllMessagesCall(t) ==
    /\ CanStart(t)
    /\ \E ch \in Channels, since \in Sinces :
          Apply(t, get_all_messages_begin(Start(t, "get_all_messages", ch), since))

\* the platform hands out at most MaxPages pages
PageReturn(t) ==
    /\ frame[t].pc = "page"
    /\ \E resp \in HistoryResponses :
          /\ Len(frame[t].pages) + 1 >= MaxPages => NextCursorOf(resp) = None
          /\ Apply(t, get_all_messages_after(World(t), resp))

\* the caller takes the result or the exception; the coroutine is gone
Retire(t) ==
    /\ frame[t].pc \in {"done", "raised"}
    /\ frame' = [frame EXCEPT ![t] = IdleFrame]
    /\ heap' = Collect(heap, config, [frame EXCEPT ![t] = IdleFrame])
    /\ UNCHANGED <<config, overlap>>

\* the configuration resolver: refresh, ensure and reset, one call after the other
Next ==
    \E t \in Tasks :
        \/ RefreshCall(t) \/ LoadReturn(t) \/ InvalidPosted(t) \/ PrivatePosted(t)
        \/ UpdatedPosted(t) \/ EnsureCall(t) \/ FilesListReturn(t) \/ MissingPosted(t)
        \/ ResetCall(t) \/ Retire(t)

Spec == Init /\ [][Next]_vars

\* the platform helpers: add_reaction and get_all_messages
NextHelpers ==
    \E t \in Tasks :
        \/ AddReactionCall(t) \/ ReactionsAddReturn(t) \/ ReactionCommentPosted(t)
        \/ GetAllMessagesCall(t) \/ PageReturn(t) \/ Retire(t)

SpecHelpers == Init /\ [][NextHelpers]_vars

\* the platform answers every request for a page
SpecHelpersFair == SpecHelpers /\ \A t \in Tasks : WF_vars(PageReturn(t))

\* the candidate selection on every list of files: one refresh on an empty store
InitSelect ==
    /\ InitStore
    /\ overlap = FALSE
    /\ \E files \in FileLists, force_create \in BOOLEAN :
          frame = [t \in Tasks |->
                     IF t = 1
                     THEN [IdleFrame EXCEPT !.op = "refresh", !.pc = "scheduled",
                                            !.channel = "C1", !.files = files,
                                            !.force_create = force_create,
                                            !.config0 = EmptyConfig,
                                            !.heap0 = [i \in Refs |-> FreeSlot]]
                     ELSE IdleFrame]

NextSelect == \E t \in Tasks : RefreshRun(t)

SpecSelect == InitSelect /\ [][NextSelect]_vars

\* the files of the calls that overlap
ConcFileLists == {files \in EventFileLists : Len(files) <= 1}

ScheduledRefreshes ==
    { [IdleFrame EXCEPT !.op = "refresh", !.pc = "scheduled", !.channel = ch,
                        !.files = files, !.from_history = from_history,
                        !.force_create = force_create, !.user_id = user_id,
                        !.heap0 = [i \in Refs |-> FreeSlot]]
      : ch \in Channels, files \in ConcFileLists, from_history \in BOOLEAN,
        force_create \in BOOLEAN, user_id \in UserIds }

ScheduledResets ==
    { [IdleFrame EXCEPT !.op = "reset", !.pc = "scheduled", !.channel = ch,
                        !.heap0 = [i \in Refs |-> FreeSlot]]
      : ch \in Channels }

\* two calls in flight at once: a refresh of C1 as task 1, and a refresh or
\* a reset as task 2; their steps interleave at the awaits
InitConc ==
    /\ InitStore
    /\ overlap = TRUE
    /\ \E f1 \in {f \in ScheduledRefreshes : f.channel = "C1"},
          f2 \in ScheduledRefreshes \cup ScheduledResets :
          frame = [t \in Tasks |-> IF t = 1 THEN f1 ELSE f2]

NextConc ==
    \E t \in Tasks :
        \/ RefreshRun(t) \/ ResetRun(t) \/ LoadReturn(t) \/ InvalidPosted(t)
        \/ PrivatePosted(t) \/ UpdatedPosted(t)

SpecConc == InitConc /\ [][NextConc]_vars

\* ---------------------------------------------------------- properties
\* what the claims say, in terms that do not use the operators of the model

HasPrefix(s, p) == Len(s) >= Len(p) /\ \A i \in 1..Len(p) : s[i] = p[i]

IsCandidate(file) == HasPrefix(file.title, <<"c", "f", "g">>)

HasCandidate(files) == \E i \in 1..Len(files) : IsCandidate(files[i])

ValidationErrors == {"SchemaError", "ScannerError"}

Posts(f) == SelectSeq(f.trace, LAMBDA ev : ev.kind = "post")

Calls(f, kind) == SelectSeq(f.trace, LAMBDA ev : ev.kind = kind)

Finished(f) == f.pc \in {"done", "raised"}

\* a refresh, called directly or by get_channel_configuration, whose load
\* failed validation
FailedValidation(f) ==
    /\ f.op \in {"refresh", "ensure"}
    /\ f.bmc # Null
    /\ f.e \in ValidationErrors

InvalidNotice(ch) == Event("post", ch, "invalid", Null, NoFile, None)

PrivateNotice(user, e) ==
    Event("post", user, IF e = "SchemaError" THEN "invalid_detail:SchemaError"
                                             ELSE "invalid_detail:ScannerError",
          Null, NoFile, None)

MissingNotice(ch) == Event("post", ch, "missing", Null, NoFile, None)

\* C1: a refresh with a matching candidate whose load fails validation, run
\* without interleaving, returns False and leaves the object whose load
\* failed as the channel's entry.
C1_FailedObjectStored ==
    \A t \in Tasks :
        LET f == frame[t]
        IN  (f.op = "refresh" /\ f.pc = "done" /\ HasCandidate(f.files)
             /\ f.e \in ValidationErrors)
            => /\ f.ret = FALSE
               /\ f.channel \in DOMAIN config
               /\ config[f.channel] = f.bmc
               /\ heap[f.bmc].last_load = f.e

\* the failing refresh replaced or reloaded an entry that had loaded successfully
C1_Witness ==
    \E t \in Tasks :
        LET f == frame[t]
        IN  /\ f.op = "refresh" /\ f.pc = "done" /\ f.e \in ValidationErrors
            /\ f.channel \in DOMAIN f.config0
            /\ f.heap0[f.config0[f.channel]].last_load = "ok"
            /\ f.force_create
            /\ config[f.channel] # f.config0[f.channel]

\* C2: a refresh that ends in a validation failure has posted exactly one
\* public "invalid" message to the channel, whatever from_history is, one
\* private message to the requester exactly when a (non-empty) requester id
\* was given, and nothing else.
C2_InvalidNotices ==
    \A t \in Tasks :
        LET f == frame[t]
        IN  (FailedValidation(f) /\ Finished(f))
            => /\ f.pc = "done"
               /\ Posts(f) = IF f.user_id \notin {None, ""}
                             THEN <<InvalidNotice(f.channel), PrivateNotice(f.user_id, f.e)>>
                             ELSE <<InvalidNotice(f.channel)>>

\* a failed load from history with a requester: both messages were posted
C2_Witness ==
    \E t \in Tasks :
        LET f == frame[t]
        IN  /\ f.op = "refresh" /\ f.pc = "done" /\ f.e = "ScannerError"
            /\ f.from_history /\ f.user_id = "U1"
            /\ Len(Posts(f)) = 2

\* C3: a refresh whose files are empty or hold no candidate changes no entry
\* of the store, posts nothing, calls no loader and returns False.
C3_NoCandidatesNoEffect ==
    \A t \in Tasks :
        LET f == frame[t]
        IN  (f.op = "refresh" /\ f.pc # "idle" /\ ~HasCandidate(f.files))
            => /\ f.pc = "done"
               /\ f.ret = FALSE
               /\ f.trace = <<>>
               /\ config = f.config0
               /\ heap = f.heap0

\* files that do not match, on a store that has an entry for the channel
C3_Witness ==
    \E t \in Tasks :
        LET f == frame[t]
        IN  /\ f.op = "refresh" /\ f.pc = "done" /\ f.files # <<>>
            /\ ~HasCandidate(f.files)
            /\ f.force_create
            /\ f.channel \in DOMAIN config

\* the refresh of this frame has come to its end and its load had succeeded
LoadedAndFinished(f) ==
    /\ f.op \in {"refresh", "ensure"}
    /\ Finished(f)
    /\ f.bmc # Null
    /\ heap[f.bmc].last_load = "ok"

\* C4: a refresh whose load succeeds returns True; it has posted exactly one
\* message, the confirmation with the loaded file's permalink, when
\* from_history is false, and no message when from_history is true.
C4_Confirmation ==
    \A t \in Tasks :
        LET f == frame[t]
        IN  LoadedAndFinished(f)
            => /\ f.pc = "done"
               /\ f.res = TRUE
               /\ f.op = "refresh" => f.ret = TRUE
               /\ f.from_history => Posts(f) = <<>>
               /\ ~f.from_history =>
                     /\ Len(Posts(f)) = 1
                     /\ Posts(f)[1].to = f.channel
                     /\ Posts(f)[1].text = "updated"
                     /\ Posts(f)[1].link = heap[f.bmc].file

C4_Witness ==
    \E t \in Tasks :
        LET f == frame[t]
        IN  /\ LoadedAndFinished(f) /\ f.op = "refresh" /\ ~f.from_history
            /\ Len(Posts(f)) = 1 /\ f.ret = TRUE

\* C5: ensure on a channel that has an entry returns that entry and does
\* nothing else: no files_list, no load, no write to the store, no message.
C5_EnsureCached ==
    \A t \in Tasks :
        LET f == frame[t]
        IN  (f.op = "ensure" /\ f.channel \in DOMAIN f.config0)
            => /\ f.pc = "done"
               /\ f.ret = f.config0[f.channel]
               /\ f.trace = <<>>
               /\ config = f.config0
               /\ heap = f.heap0

\* the entry returned is one whose load had failed
C5_Witness ==
    \E t \in Tasks :
        LET f == frame[t]
        IN  /\ f.op = "ensure" /\ f.pc = "done"
            /\ f.channel \in DOMAIN f.config0
            /\ heap[f.ret].last_load = "SchemaError"

\* C6: ensure on a channel without an entry whose history holds no candidate
\* lists the files once, posts exactly one "invalid or missing" message,
\* leaves the channel without an entry and returns None.
C6_EnsureMissing ==
    \A t \in Tasks :
        LET f == frame[t]
        IN  (f.op = "ensure" /\ f.channel \notin DOMAIN f.config0
             /\ f.pc \notin {"idle", "files_list"} /\ ~HasCandidate(f.files))
            => /\ f.trace = <<FilesListEvent(f.channel), MissingNotice(f.channel)>>
               /\ f.channel \notin DOMAIN config
               /\ f.pc \in {"post_missing", "done"}
               /\ f.pc = "done" => f.ret = Null

C6_Witness ==
    \E t \in Tasks :
        LET f == frame[t]
        IN  /\ f.op = "ensure" /\ f.pc = "done" /\ f.ret = Null
            /\ f.files # <<>>
            /\ Len(Posts(f)) = 1

\* the indices of the candidates of files
CandidateIndices(files) == {i \in 1..Len(files) : IsCandidate(files[i])}

\* files[i] is wanted before files[j]: the later timestamp first, and of two
\* equal timestamps the one that came first
Precedes(files, i, j) ==
    \/ files[i].timestamp > files[j].timestamp
    \/ files[i].timestamp = files[j].timestamp /\ i < j

\* the selection as the claim describes it: the k-th element is the
\* candidate that exactly k - 1 candidates precede
ExpectedSelection(files) ==
    LET C == CandidateIndices(files)
    IN  [k \in 1..Cardinality(C) |->
            files[CHOOSE i \in C : Cardinality({j \in C : Precedes(files, j, i)}) = k - 1]]

\* C7: the selection of refresh yields the files whose title starts with
\* the prefix, latest timestamp first and equal timestamps in input order;
\* it is empty when nothing matches; its first element is the file of a
\* newly built configuration.
C7_Selection ==
    \A t \in Tasks :
        LET f == frame[t]
        IN  (f.op = "refresh" /\ f.pc # "scheduled")
            => /\ f.sorted_files = ExpectedSelection(f.files)
               /\ ~HasCandidate(f.files) => f.sorted_files = <<>> /\ f.bmc = Null
               /\ HasCandidate(f.files) =>
                     /\ f.bmc # Null
                     /\ heap[f.bmc].file = ExpectedSelection(f.files)[1]

\* three candidates: the latest came second, the other two have one
\* timestamp and keep their order
C7_Witness ==
    \E t \in Tasks :
        LET f == frame[t]
        IN  /\ f.op = "refresh" /\ f.pc = "load"
            /\ Len(f.files) = 3 /\ Len(f.sorted_files) = 3
            /\ f.sorted_files[1] = f.files[2]
            /\ f.sorted_files[2] = f.files[1]
            /\ f.sorted_files[3] = f.files[3]
            /\ f.files[1].timestamp = f.files[3].timestamp
            /\ f.files[1] # f.files[3]

\* C8: add_reaction posts one comment in the thread of the message and
\* returns on invalid_name, returns None without a message on
\* already_reacted, raises without a message on any other platform error,
\* and posts nothing when reactions_add succeeds.
C8_AddReaction ==
    \A t \in Tasks :
        LET f == frame[t]
        IN  (f.op = "add_reaction" /\ f.pc # "reactions_add")
            => CASE f.e.exc = None ->
                      f.pc = "done" /\ f.ret = "response" /\ Posts(f) = <<>>
                 [] f.e.exc = "SlackApiError" /\ f.e.error = "invalid_name" ->
                      /\ f.pc \in {"post_reaction", "done"}
                      /\ Posts(f) = <<Event("post", f.channel, "invalid_reaction",
                                            Null, NoFile, f.ts)>>
                 [] f.e.exc = "SlackApiError" /\ f.e.error = "already_reacted" ->
                      f.pc = "done" /\ f.ret = None /\ Posts(f) = <<>>
                 [] OTHER ->
                      f.pc = "raised" /\ f.exc = f.e.exc /\ Posts(f) = <<>>

C8_Witness ==
    \E t \in Tasks :
        LET f == frame[t]
        IN  /\ f.op = "add_reaction" /\ f.pc = "done"
            /\ f.e.error = "invalid_name" /\ f.emoji = "bad::name"
            /\ Len(Posts(f)) = 1

\* the response carries no next cursor
CursorAbsent(resp) == resp.meta # "present" \/ resp.next_cursor = None

RECURSIVE Concatenation(_)
Concatenation(pages) ==
    IF pages = <<>> THEN <<>>
    ELSE Concatenation(SubSeq(pages, 1, Len(pages) - 1))
         \o (IF pages[Len(pages)].has_messages THEN pages[Len(pages)].messages ELSE <<>>)

\* C9: get_all_messages returns the messages of the pages it fetched, in
\* the order of the requests, and it stops at the first page without a next
\* cursor: it makes as many requests as that page's index, at least one.
C9_Pagination ==
    \A t \in Tasks :
        LET f == frame[t]
            requests == Len(Calls(f, "conversations_history"))
        IN  f.op = "get_all_messages"
            => /\ requests >= 1
               /\ f.messages = Concatenation(f.pages)
               /\ f.pc \in {"page", "done"}
               /\ f.pc = "page" =>
                     /\ requests = Len(f.pages) + 1
                     /\ \A i \in 1..Len(f.pages) : ~CursorAbsent(f.pages[i])
               /\ f.pc = "done" =>
                     /\ f.ret = Concatenation(f.pages)
                     /\ requests = Len(f.pages)
                     /\ CursorAbsent(f.pages[Len(f.pages)])
                     /\ \A i \in 1..(Len(f.pages) - 1) : ~CursorAbsent(f.pages[i])

\* three pages, the first with an empty-string cursor, the last without one
C9_Witness ==
    \E t \in Tasks :
        LET f == frame[t]
        IN  /\ f.op = "get_all_messages" /\ f.pc = "done"
            /\ Len(f.pages) = 3
            /\ f.pages[1].next_cursor = ""
            /\ f.ret = <<"b", "c", "a">>

\* C10: in one refresh every write to the channel's entry comes before every
\* message of that refresh, and a message is sent only once the store has
\* been given the object being loaded.
C10_WriteBeforeNotify ==
    \A t \in Tasks :
        LET f == frame[t]
        IN  f.op \in {"refresh", "ensure"}
            => \A j \in 1..Len(f.trace) :
                  (f.trace[j].kind = "post" /\ f.trace[j].text # "missing")
                  => /\ \E i \in 1..(j - 1) : f.trace[i] = WriteEvent(f.channel, f.bmc)
                     /\ \A k \in (j + 1)..Len(f.trace) : f.trace[k].kind # "write"

\* the refresh wrote, loaded, wrote again, and then sent both messages
C10_Witness ==
    \E t \in Tasks :
        LET f == frame[t]
        IN  /\ f.op = "refresh" /\ f.pc = "done"
            /\ Len(Calls(f, "write")) = 2
            /\ Len(Posts(f)) = 2
            /\ f.trace[Len(f.trace)].kind = "post"

\* task t sends a message in this step
Sends(t) ==
    /\ Len(frame'[t].trace) > Len(frame[t].trace)
    /\ frame'[t].trace[Len(frame'[t].trace)].kind = "post"

SentText(t) == frame'[t].trace[Len(frame'[t].trace)].text

\* the store holds, after the step, the object task t loaded
StoreHoldsLoaded(t) ==
    /\ frame'[t].channel \in DOMAIN config'
    /\ config'[frame'[t].channel] = frame'[t].bmc

\* C11 as stated: whenever a refresh sends a notification, whatever other
\* refresh or reset interleaves, the channel's entry is the object that
\* refresh loaded.
C11_Original ==
    [][\A t \in Tasks : (frame'[t].op = "refresh" /\ Sends(t)) => StoreHoldsLoaded(t)]_vars

\* C11, amended: whenever a refresh sends the public "configuration file is
\* invalid" notice, whatever other refresh or reset interleaves, the
\* channel's entry is the object that refresh loaded.
C11_InvalidNoticeSeesStore ==
    [][\A t \in Tasks :
          (frame'[t].op = "refresh" /\ Sends(t) /\ SentText(t) = "invalid")
          => StoreHoldsLoaded(t)]_vars

\* task t has just told the channel of its invalid file, after task u, started
\* on the store t had written, had put another object in the channel's entry
C11_Witness ==
    \E t \in Tasks, u \in Tasks :
        LET f == frame[t]
            g == frame[u]
        IN  /\ t # u
            /\ f.op = "refresh" /\ f.pc = "post_invalid"
            /\ g.op = "refresh" /\ g.pc = "load" /\ g.channel = f.channel
            /\ f.channel \in DOMAIN g.config0
            /\ g.config0[f.channel] = f.bmc
            /\ g.bmc # f.bmc
            /\ config[f.channel] = f.bmc

\* C19 as stated: a refresh with from_history false whose load succeeded
\* ends, in every interleaving, by returning True with its confirmation
\* posted; it never fails on a missing entry.
C19_AlwaysConfirms ==
    \A t \in Tasks :
        LET f == frame[t]
        IN  (f.op = "refresh" /\ ~f.from_history /\ f.res = TRUE /\ Finished(f))
            => /\ f.pc = "done"
               /\ f.ret = TRUE
               /\ Len(Posts(f)) = 1

\* a refresh that found a candidate has returned
ReturnedWithCandidate(f) == f.op = "refresh" /\ f.pc = "done" /\ HasCandidate(f.files)

\* the refresh of f had to build an object: force_create, or no entry
BuildsNew(f) == f.force_create \/ f.channel \notin DOMAIN f.config0

\* C12 as stated: after a refresh that found a candidate the channel's entry
\* is a configuration of the most recent candidate of that call, and the
\* entry there was before is replaced, whatever force_create is.
C12_Original ==
    \A t \in Tasks :
        LET f == frame[t]
        IN  ReturnedWithCandidate(f)
            => /\ f.channel \in DOMAIN config
               /\ heap[config[f.channel]].file = ExpectedSelection(f.files)[1]
               /\ f.channel \in DOMAIN f.config0
                     => config[f.channel] # f.config0[f.channel]

\* C12, amended: after a refresh that found a candidate the channel has an
\* entry; it is a new configuration of the most recent candidate when
\* force_create is set or the channel had no entry, and otherwise it is the
\* entry there was before, kept with the file it was built from.
C12_ReplacedOrKept ==
    \A t \in Tasks :
        LET f == frame[t]
        IN  ReturnedWithCandidate(f)
            => /\ f.channel \in DOMAIN config
               /\ BuildsNew(f) =>
                     /\ f.heap0[config[f.channel]] = FreeSlot
                     /\ heap[config[f.channel]].file = ExpectedSelection(f.files)[1]
               /\ ~BuildsNew(f) =>
                     /\ config[f.channel] = f.config0[f.channel]
                     /\ heap[config[f.channel]].file = f.heap0[f.config0[f.channel]].file

\* the entry was kept although a later file was offered
C12_Witness ==
    \E t \in Tasks :
        LET f == frame[t]
        IN  /\ ReturnedWithCandidate(f) /\ ~BuildsNew(f)
            /\ Len(f.sorted_files) = 2
            /\ heap[config[f.channel]].file # f.sorted_files[1]
            /\ f.ret = TRUE

\* a reset has left the store without the channel and the rest as it was;
\* an ensure on a channel without an entry starts with the history
ResetEffect ==
    \A t \in Tasks :
        LET f == frame[t]
        IN  /\ (f.op = "reset" /\ f.pc # "idle")
               => /\ f.pc = "done"
                  /\ f.channel \notin DOMAIN config
                  /\ get_configuration(config, f.channel) = Null
                  /\ DOMAIN config = DOMAIN f.config0 \ {f.channel}
                  /\ \A c \in DOMAIN config : config[c] = f.config0[c]
            /\ (f.op = "ensure" /\ f.channel \notin DOMAIN f.config0)
               => /\ f.trace # <<>>
                  /\ f.trace[1] = FilesListEvent(f.channel)

\* an entry leaves the store only in a step that is a reset of its channel
RemovedByReset ==
    \A c \in DOMAIN config \ DOMAIN config' :
        \E t \in Tasks :
            /\ frame[t].pc = "idle"
            /\ frame'[t].op = "reset" /\ frame'[t].channel = c

\* C13: reset removes the channel's entry, so that get returns None and a
\* following ensure asks the history; on a channel without an entry it
\* changes nothing and does not raise; it leaves every other channel's entry
\* alone; and nothing but reset removes an entry.
C13_Reset == []ResetEffect /\ [][RemovedByReset]_vars

\* an entry was removed while the other channel kept its own
C13_Witness ==
    \E t \in Tasks :
        LET f == frame[t]
        IN  /\ f.op = "reset" /\ f.pc = "done"
            /\ f.channel \in DOMAIN f.config0
            /\ DOMAIN config # {}

\* C14: in a refresh with a candidate the object stored and loaded is the
\* cached one exactly when force_create is false and the channel has an
\* entry; otherwise it is a new one built from the first candidate of the
\* selection. It is written to the store before the loader is called.
C14_ObjectChosen ==
    \A t \in Tasks :
        LET f == frame[t]
        IN  (f.op = "refresh" /\ f.pc # "idle" /\ HasCandidate(f.files))
            => /\ f.bmc # Null
               /\ (f.channel \in DOMAIN f.config0 /\ f.bmc = f.config0[f.channel])
                     <=> (~f.force_create /\ f.channel \in DOMAIN f.config0)
               /\ BuildsNew(f) =>
                     /\ f.heap0[f.bmc] = FreeSlot
                     /\ heap[f.bmc].file = ExpectedSelection(f.files)[1]
               /\ Len(f.trace) >= 2
               /\ f.trace[1] = WriteEvent(f.channel, f.bmc)
               /\ f.trace[2] = LoadEvent(f.bmc)

\* the cached object is being loaded again
C14_Witness ==
    \E t \in Tasks :
        LET f == frame[t]
        IN  /\ f.op = "refresh" /\ f.pc = "load"
            /\ ~f.force_create
            /\ f.channel \in DOMAIN f.config0
            /\ f.bmc = f.config0[f.channel]
            /\ f.heap0[f.bmc].last_load = "ok"

\* the load of this frame's refresh has raised what is no validation error
LoadRaisedOther(f) ==
    /\ f.op \in {"refresh", "ensure"}
    /\ f.bmc # Null
    /\ f.pc # "load"
    /\ heap[f.bmc].last_load \notin {"never", "ok", "SchemaError", "ScannerError"}

\* C15: an exception of the loader that is no validation error leaves
\* refresh uncaught: the call ends with that exception, without a message
\* and without a result; get_channel_configuration ends with it as well,
\* without its "invalid or missing" message.
C15_OtherErrorPropagates ==
    \A t \in Tasks :
        LET f == frame[t]
        IN  LoadRaisedOther(f)
            => /\ f.pc = "raised"
               /\ f.exc = heap[f.bmc].last_load
               /\ Posts(f) = <<>>
               /\ f.ret = None

C15_Witness ==
    \E t \in Tasks :
        LET f == frame[t]
        IN  /\ f.op = "ensure" /\ f.pc = "raised" /\ f.exc = "OtherError"
            /\ Len(Calls(f, "files_list")) = 1

\* C16: get_channel_configuration returns None exactly when the store has
\* no entry for the channel after the history was tried. A history file
\* that fails validation is stored and returned, with one "invalid" notice
\* and no "invalid or missing" message; one that loads is returned with no
\* message at all.
C16_EnsureAfterHistory ==
    \A t \in Tasks :
        LET f == frame[t]
        IN  (f.op = "ensure" /\ f.channel \notin DOMAIN f.config0)
            => /\ f.pc = "done" => (f.ret = Null <=> f.channel \notin DOMAIN config)
               /\ (f.bmc # Null /\ f.e \in ValidationErrors) =>
                     /\ f.pc \in {"post_invalid", "done"}
                     /\ Posts(f) = <<InvalidNotice(f.channel)>>
                     /\ f.channel \in DOMAIN config /\ config[f.channel] = f.bmc
                     /\ heap[f.bmc].last_load = f.e
                     /\ f.pc = "done" => f.ret = f.bmc
               /\ (f.bmc # Null /\ f.res = TRUE) =>
                     /\ f.pc = "done"
                     /\ f.ret = f.bmc
                     /\ heap[f.bmc].last_load = "ok"
                     /\ Posts(f) = <<>>

\* the failed object came back from get_channel_configuration
C16_Witness ==
    \E t \in Tasks :
        LET f == frame[t]
        IN  /\ f.op = "ensure" /\ f.pc = "done"
            /\ f.e = "SchemaError"
            /\ f.ret = f.bmc /\ f.ret # Null
            /\ Len(Posts(f)) = 1

\* get_channel_configuration(ch), begun on the store as it is now
EnsureNow(ch) ==
    ensure_begin([f |-> [IdleFrame EXCEPT !.op = "ensure", !.channel = ch,
                                          !.config0 = config, !.heap0 = heap],
                  config |-> config, heap |-> heap]).f

\* C20: the write made before the load stays when the loader raises what is
\* no validation error: the channel's entry is the object the refresh chose
\* (a new one, never loaded, under force_create or without a prior entry),
\* and a later get_channel_configuration returns it with no call to the
\* history and no message.
C20_NoRollback ==
    \A t \in Tasks :
        LET f == frame[t]
        IN  (f.op = "refresh" /\ f.pc = "raised" /\ f.exc = "OtherError")
            => /\ f.channel \in DOMAIN config
               /\ config[f.channel] = f.bmc
               /\ BuildsNew(f) =>
                     /\ f.heap0[f.bmc] = FreeSlot
                     /\ heap[f.bmc].last_load = "OtherError"
               /\ ~BuildsNew(f) => f.bmc = f.config0[f.channel]
               /\ EnsureNow(f.channel).pc = "done"
               /\ EnsureNow(f.channel).ret = f.bmc
               /\ EnsureNow(f.channel).trace = <<>>

\* an entry that had loaded was lost to a forced refresh that raised
C20_Witness ==
    \E t \in Tasks :
        LET f == frame[t]
        IN  /\ f.op = "refresh" /\ f.pc = "raised" /\ f.exc = "OtherError"
            /\ f.force_create
            /\ f.channel \in DOMAIN f.config0
            /\ f.heap0[f.config0[f.channel]].last_load = "ok"
            /\ config[f.channel] # f.config0[f.channel]

\* which of the three cases a refresh that returned was
Outcome(f) ==
    IF ~HasCandidate(f.files) THEN "NoCandidates"
    ELSE IF f.e \in ValidationErrors THEN "Invalid"
    ELSE "Loaded"

Returned(f) == f.op = "refresh" /\ f.pc = "done"

\* C17 as stated: the result of refresh tells the three cases apart: two
\* refreshes of different cases return different results.
C17_Original ==
    \A t \in Tasks, u \in Tasks :
        (Returned(frame[t]) /\ Returned(frame[u])
         /\ Outcome(frame[t]) # Outcome(frame[u]))
        => frame[t].ret # frame[u].ret

\* C17, amended: the result of refresh is a boolean: True exactly when a
\* candidate was found and the load succeeded, False both when validation
\* failed and when no file matched.
C17_BooleanResult ==
    \A t \in Tasks :
        LET f == frame[t]
        IN  Returned(f)
            => /\ f.ret \in BOOLEAN
               /\ f.ret = TRUE <=> Outcome(f) = "Loaded"
               /\ f.ret = FALSE <=> Outcome(f) \in {"Invalid", "NoCandidates"}

\* the three cases seen in two refreshes that returned: one loaded, the
\* other did not
C17_Witness ==
    \E t \in Tasks, u \in Tasks :
        /\ Returned(frame[t]) /\ Returned(frame[u])
        /\ Outcome(frame[t]) = "Loaded" /\ frame[t].ret = TRUE
        /\ Outcome(frame[u]) = "Invalid" /\ frame[u].ret = FALSE

\* the requests of get_all_messages: the first without a cursor, each later
\* one with the cursor of the response before it, all with the page size 20
\* and the caller's since, one at a time; the loop has ended only on a
\* response without a cursor
PagesInOrder ==
    \A t \in Tasks :
        LET f == frame[t]
            reqs == Calls(f, "conversations_history")
        IN  f.op = "get_all_messages"
            => /\ Len(reqs) >= 1
               /\ reqs[1].cursor = None
               /\ Len(reqs) <= Len(f.pages) + 1
               /\ \A i \in 2..Len(reqs) :
                     /\ f.pages[i - 1].meta = "present"
                     /\ reqs[i].cursor = f.pages[i - 1].next_cursor
               /\ \A i \in 1..Len(reqs) :
                     /\ reqs[i].to = f.channel
                     /\ reqs[i].limit = 20
                     /\ reqs[i].oldest = f.since
               /\ f.pc = "page" => Len(reqs) = Len(f.pages) + 1
               /\ f.pc = "done" =>
                     /\ Len(reqs) = Len(f.pages)
                     /\ CursorAbsent(f.pages[Len(f.pages)])

\* C18: get_all_messages asks for its pages one after the other, the first
\* without a cursor and each later one with the cursor of the response before
\* it, the same since and the page size 20; it returns once a response
\* carries no cursor, and as long as the responses carry one (an empty
\* string too) it goes on asking.
C18_SequentialPages ==
    /\ []PagesInOrder
    /\ \A t \in Tasks : (frame[t].pc = "page") ~> (frame[t].pc = "done")

\* the third request carries the empty-string cursor of the second response
C18_Witness ==
    \E t \in Tasks :
        LET f == frame[t]
            reqs == Calls(f, "conversations_history")
        IN  /\ f.op = "get_all_messages" /\ f.pc = "page"
            /\ f.since = 5
            /\ Len(reqs) = 3
            /\ reqs[2].cursor = "c1"
            /\ reqs[3].cursor = ""

====
